---- MODULE Spec2Model ----
(***************************************************************************)
(* GeoCroissant -> OGC-TDML metadata conversion.                           *)
(*                                                                         *)
(* The repository ships convert_geocroissant_to_tdml_manual twice:         *)
(*   "nested": OGC-TDML to GeoCroissant Support/GeoCroissant to OGC-TDML/  *)
(*             geocroissant_to_ogc-tdml_converter.py                       *)
(*   "top":    OGC-TDML to GeoCroissant Support/                           *)
(*             geocroissant_to_ogc-tdml_converter.py                       *)
(* Both are modelled; the variable `variant` says which one runs.          *)
(*                                                                         *)
(* JSON values: an object is a function whose DOMAIN is its key set (so    *)
(* dict.get is Get below); an object whose iteration order or key text     *)
(* matters is a sequence of [key, val] items; a string that the code       *)
(* searches or lower-cases is a Text, a sequence of one-character strings; *)
(* a value the code asks isinstance of is tagged [str |-> s], [list |-> l] *)
(* or [dict |-> d].                                                        *)
(***************************************************************************)
EXTENDS Integers, Sequences, FiniteSets, TLC

VARIABLES
    variant,         \* which of the two converter files runs
    source_file,     \* the file at geocroissant_path
    croissant_data,  \* json.load's result
    tdml_structure,  \* the assembled target object
    warnings,        \* the "Warning: ..." lines printed so far, in order
    target_file,     \* the file at tdml_output_path
    error,           \* the exception that left the function, if any
    pc               \* position in convert_geocroissant_to_tdml_manual

vars == <<variant, source_file, croissant_data, tdml_structure, warnings,
          target_file, error, pc>>

----------------------------------------------------------------------------
(* Bounds of the model.                                                    *)

\* longest train or val list of the small listings
MaxSplit == 3
\* longest recordSet sequence
MaxRecordSets == 2
\* longest geocr:mlTask.classes sequence
MaxClasses == 3

----------------------------------------------------------------------------
(* Python and JSON primitives.                                             *)

\* the empty JSON object {}
EmptyDict == [k \in {} |-> 0]

\* dict.get(k, dflt)
Get(d, k, dflt) == IF k \in DOMAIN d THEN d[k] ELSE dflt

\* JSON null, where a URL is expected
Null == "<null>"

\* truth value of a string or None
Truthy(s) == s # "" /\ s # Null

Min(a, b) == IF a <= b THEN a ELSE b

\* str.lower() on the letters A-Z
UpperToLower ==
    [c \in {"A","B","C","D","E","F","G","H","I","J","K","L","M","N","O","P",
            "Q","R","S","T","U","V","W","X","Y","Z"} |->
        CASE c = "A" -> "a" [] c = "B" -> "b" [] c = "C" -> "c" [] c = "D" -> "d"
          [] c = "E" -> "e" [] c = "F" -> "f" [] c = "G" -> "g" [] c = "H" -> "h"
          [] c = "I" -> "i" [] c = "J" -> "j" [] c = "K" -> "k" [] c = "L" -> "l"
          [] c = "M" -> "m" [] c = "N" -> "n" [] c = "O" -> "o" [] c = "P" -> "p"
          [] c = "Q" -> "q" [] c = "R" -> "r" [] c = "S" -> "s" [] c = "T" -> "t"
          [] c = "U" -> "u" [] c = "V" -> "v" [] c = "W" -> "w" [] c = "X" -> "x"
          [] c = "Y" -> "y" [] c = "Z" -> "z"]

Lower(t) ==
    [i \in 1..Len(t) |-> IF t[i] \in DOMAIN UpperToLower THEN UpperToLower[t[i]] ELSE t[i]]

\* p in t
Contains(t, p) ==
    \E i \in 0..(Len(t) - Len(p)) : SubSeq(t, i + 1, i + Len(p)) = p

\* t.startswith(p)
StartsWith(t, p) == Len(t) >= Len(p) /\ SubSeq(t, 1, Len(p)) = p

\* the Python string a Text stands for
RECURSIVE Str(_)
Str(t) == IF t = <<>> THEN "" ELSE Head(t) \o Str(Tail(t))

T_hls == <<"h","l","s">>
T_hls_burn_scars == <<"h","l","s","_","b","u","r","n","_","s","c","a","r","s">>
T_band == <<"b","a","n","d">>
T_image == <<"i","m","a","g","e">>
T_annotation == <<"a","n","n","o","t","a","t","i","o","n">>

----------------------------------------------------------------------------
(* Top-level metadata, lines 97-139 (nested) and 12-48 (top).              *)

Identifier(doc) ==
    LET a == Get(doc, "@id", "")
        b == Get(doc, "id", "")
    IN  IF Truthy(a) THEN a ELSE IF Truthy(b) THEN b ELSE "hls_burn_scars_dataset"

DatasetName(v, doc) ==
    IF v = "nested" THEN Get(doc, "name", "HLS_Burn_Scars") ELSE Get(doc, "name", "")

\* a description with no fallback
DescriptionAsGiven(doc) == Get(doc, "description", "")

Description(doc) ==
    LET d == Get(doc, "description", "")
    IN  IF ~Truthy(d) THEN "No description provided." ELSE d

\* license_ after the isinstance(license_, list) step
FirstLicense(doc) ==
    LET l == Get(doc, "license", [str |-> ""])
    IN  IF "list" \in DOMAIN l
        THEN (IF l.list # <<>> THEN l.list[1] ELSE "")
        ELSE l.str

License(v, doc) ==
    LET l == FirstLicense(doc)
    IN  IF v = "nested" /\ ~Truthy(l)
        THEN "https://creativecommons.org/licenses/by/4.0/"
        ELSE l

\* one creator of a creator list: what it appends to providers
ProviderOf(creator) ==
    IF "dict" \in DOMAIN creator
    THEN LET n == Get(creator.dict, "name", "")
         IN  IF Truthy(n) THEN <<n>> ELSE <<>>
    ELSE IF "str" \in DOMAIN creator THEN <<creator.str>> ELSE <<>>

RECURSIVE ProvidersOfList(_)
ProvidersOfList(creators) ==
    IF creators = <<>> THEN <<>>
    ELSE ProviderOf(Head(creators)) \o ProvidersOfList(Tail(creators))

\* providers before the default is substituted
ExtractProviders(doc) ==
    LET creators == Get(doc, "creator", [list |-> <<>>])
    IN  IF "list" \in DOMAIN creators THEN ProvidersOfList(creators.list)
        ELSE IF "dict" \in DOMAIN creators
             THEN LET n == Get(creators.dict, "name", "")
                  IN  IF Truthy(n) THEN <<n>> ELSE <<>>
             ELSE <<>>

Providers(v, doc) ==
    LET p == ExtractProviders(doc)
    IN  IF v = "nested" /\ p = <<>>
        THEN <<"IBM-NASA Prithvi Models Family">>
        ELSE p

\* get(first, '') or get(second, ''), then the default timestamp
Timestamp(doc, first, second) ==
    LET a == Get(doc, first, "")
        b == Get(doc, second, "")
        t == IF Truthy(a) THEN a ELSE b
    IN  IF ~Truthy(t) THEN "2025-01-17T00:00:00Z" ELSE t

CreatedTime(doc) == Timestamp(doc, "dateCreated", "created_time")
UpdatedTime(doc) == Timestamp(doc, "dateModified", "updated_time")

Version(v, doc) ==
    IF v = "nested" THEN Get(doc, "version", "1.0.0") ELSE Get(doc, "version", "1.0")

----------------------------------------------------------------------------
(* Main record set, lines 141-156 (nested) and 50-59 (top).                *)

\* Python's None for main_record_set
NoRecordSet == [none |-> TRUE]

\* a check that lets every value through
NeverFalsyRecordSet(rs) == FALSE

\* not main_record_set
FalsyRecordSet(rs) == rs = NoRecordSet \/ rs = EmptyDict

\* the test of the selection loop on one entry
MatchesMain(v, rs) ==
    IF v = "nested"
    THEN \/ ("name" \in DOMAIN rs /\ rs["name"] = T_hls_burn_scars)
         \/ Contains(Lower(Get(rs, "name", <<>>)), T_hls)
    ELSE "name" \in DOMAIN rs /\ rs["name"] = T_hls_burn_scars

\* main_record_set when the for loop ends
FirstMatch(v, record_sets) ==
    IF \E i \in 1..Len(record_sets) : MatchesMain(v, record_sets[i])
    THEN record_sets[CHOOSE i \in 1..Len(record_sets) :
                        /\ MatchesMain(v, record_sets[i])
                        /\ \A j \in 1..(i - 1) : ~MatchesMain(v, record_sets[j])]
    ELSE NoRecordSet

\* whether the nested converter takes its first-entry fallback
TakesFallback(v, record_sets) ==
    v = "nested" /\ FalsyRecordSet(FirstMatch(v, record_sets)) /\ record_sets # <<>>

MainRecordSet(v, doc) ==
    LET record_sets == Get(doc, "recordSet", <<>>)
    IN  IF TakesFallback(v, record_sets) THEN record_sets[1]
        ELSE FirstMatch(v, record_sets)

RecordSetWarnings(v, doc) ==
    LET record_sets == Get(doc, "recordSet", <<>>)
    IN  IF TakesFallback(v, record_sets)
        THEN <<"Warning: Using first record set '"
               \o (IF "name" \in DOMAIN record_sets[1]
                   THEN Str(record_sets[1]["name"]) ELSE "unknown")
               \o "' as main record set">>
        ELSE <<>>

\* the ValueError of line 156 (nested) or 59 (top)
RecordSetError(v) ==
    IF v = "nested"
    THEN [exc |-> "ValueError",
          msg |-> "Could not find any recordSet in the GeoCroissant data"]
    ELSE [exc |-> "ValueError",
          msg |-> "Could not find main recordSet 'hls_burn_scars'"]

----------------------------------------------------------------------------
(* Bands, lines 161-182 and 212-222 (nested), 64-90 (top).                 *)

\* band_dict built from one band_info; dflt is the name used when it has none
BandDict(band_info, dflt) ==
    LET band_name == Get(band_info, "name", dflt)
        hls_band  == Get(band_info, "hlsBand", "")
    IN  [name        |-> band_name,
         description |-> band_name \o " band (" \o hls_band \o ")",
         wavelength  |-> Get(band_info, "wavelength", ""),
         hlsBand     |-> hls_band]

\* for band_key, band_info in band_config.items(): if band_key.startswith('band')
RECURSIVE BandsOfItems(_)
BandsOfItems(items) ==
    IF items = <<>> THEN <<>>
    ELSE (IF StartsWith(Head(items).key, T_band)
          THEN <<BandDict(Head(items).val, "Band " \o Str(Head(items).key))>>
          ELSE <<>>)
         \o BandsOfItems(Tail(items))

\* bands read from geocr:sensorCharacteristics[0].bandConfiguration
SensorBands(doc) ==
    LET sensor_characteristics == Get(doc, "geocr:sensorCharacteristics", <<>>)
    IN  IF sensor_characteristics # <<>>
        THEN BandsOfItems(Get(sensor_characteristics[1], "bandConfiguration", <<>>))
        ELSE <<>>

\* for i in range(1, total_bands + 1): if f'band{i}' in band_config
RECURSIVE BandsByIndex(_, _, _)
BandsByIndex(band_config, i, total_bands) ==
    IF i > total_bands THEN <<>>
    ELSE (IF ("band" \o ToString(i)) \in DOMAIN band_config
          THEN <<BandDict(band_config["band" \o ToString(i)], "Band " \o ToString(i))>>
          ELSE <<>>)
         \o BandsByIndex(band_config, i + 1, total_bands)

\* what one field of the main record set adds to bands
FieldBands(field) ==
    IF Contains(Get(field, "name", <<>>), T_image)
       /\ "geocr:bandConfiguration" \in DOMAIN field
    THEN LET band_config == field["geocr:bandConfiguration"]
         IN  BandsByIndex(band_config, 1, Get(band_config, "totalBands", 0))
    ELSE <<>>

RECURSIVE RecordSetBands(_)
RecordSetBands(fields) ==
    IF fields = <<>> THEN <<>>
    ELSE FieldBands(Head(fields)) \o RecordSetBands(Tail(fields))

DefaultBands ==
    << [name |-> "Blue",  description |-> "Blue band (B02)",  wavelength |-> "490nm",  hlsBand |-> "B02"],
       [name |-> "Green", description |-> "Green band (B03)", wavelength |-> "560nm",  hlsBand |-> "B03"],
       [name |-> "Red",   description |-> "Red band (B04)",   wavelength |-> "665nm",  hlsBand |-> "B04"],
       [name |-> "NIR",   description |-> "NIR band (B8A)",   wavelength |-> "865nm",  hlsBand |-> "B8A"],
       [name |-> "SW1",   description |-> "SW1 band (B11)",   wavelength |-> "1610nm", hlsBand |-> "B11"],
       [name |-> "SW2",   description |-> "SW2 band (B12)",   wavelength |-> "2190nm", hlsBand |-> "B12"] >>

\* bands before any default is substituted
ExtractBands(v, doc, main) ==
    IF v = "nested" THEN SensorBands(doc)
    ELSE RecordSetBands(Get(main, "field", <<>>))

Bands(v, doc, main) ==
    LET b == ExtractBands(v, doc, main)
    IN  IF v = "nested" /\ b = <<>> THEN DefaultBands ELSE b

BandWarnings(v, doc, main) ==
    IF v = "nested" /\ ExtractBands(v, doc, main) = <<>>
    THEN <<"Warning: No bands found in GeoCroissant data, using default HLS bands">>
    ELSE <<>>

----------------------------------------------------------------------------
(* Classes, lines 184-210 (nested), 92-100 (top).                          *)

\* class_mapping.get(class_name, str(len(classes)))
ClassKey(class_name, classes) ==
    CASE class_name = "NotBurned" -> "0"
      [] class_name = "BurnScar"  -> "1"
      [] class_name = "NoData"    -> "-1"
      [] OTHER                    -> ToString(Len(classes))

\* for class_name in class_list: classes.append({key, value})
RECURSIVE MapClasses(_, _)
MapClasses(class_list, classes) ==
    IF class_list = <<>> THEN classes
    ELSE MapClasses(Tail(class_list),
                    Append(classes, [key   |-> ClassKey(Head(class_list), classes),
                                     value |-> Head(class_list)]))

\* classes read from geocr:mlTask
MlTaskClasses(doc) ==
    LET ml_task == Get(doc, "geocr:mlTask", EmptyDict)
    IN  IF ml_task # EmptyDict /\ "classes" \in DOMAIN ml_task
           /\ "list" \in DOMAIN ml_task["classes"]
        THEN MapClasses(ml_task["classes"].list, <<>>)
        ELSE <<>>

\* for class_id, class_name in class_values.items()
ClassValueEntries(class_values) ==
    [i \in 1..Len(class_values) |->
        [key |-> class_values[i].key, value |-> class_values[i].val]]

\* what one field of the main record set adds to classes
FieldClasses(field) ==
    IF Contains(Get(field, "name", <<>>), T_annotation)
       /\ "geocr:classValues" \in DOMAIN field
    THEN ClassValueEntries(field["geocr:classValues"])
    ELSE <<>>

RECURSIVE RecordSetClasses(_)
RecordSetClasses(fields) ==
    IF fields = <<>> THEN <<>>
    ELSE FieldClasses(Head(fields)) \o RecordSetClasses(Tail(fields))

DefaultClasses ==
    << [key |-> "0",  value |-> "NotBurned"],
       [key |-> "1",  value |-> "BurnScar"],
       [key |-> "-1", value |-> "NoData"] >>

\* classes before any default is substituted
ExtractClasses(v, doc, main) ==
    IF v = "nested" THEN MlTaskClasses(doc)
    ELSE RecordSetClasses(Get(main, "field", <<>>))

Classes(v, doc, main) ==
    LET c == ExtractClasses(v, doc, main)
    IN  IF v = "nested" /\ c = <<>> THEN DefaultClasses ELSE c

ClassWarnings(v, doc, main) ==
    IF v = "nested" /\ ExtractClasses(v, doc, main) = <<>>
    THEN <<"Warning: No classes found in GeoCroissant data, using default burn scar classes">>
    ELSE <<>>

----------------------------------------------------------------------------
(* Statistics and tasks, lines 224-239 (nested), 102-117 (top).            *)

DataStats(doc) == Get(doc, "geocr:dataStatistics", EmptyDict)

TotalSamples(doc) == Get(DataStats(doc), "totalSamples", 0)

Statistics(doc) ==
    [totalSamples      |-> TotalSamples(doc),
     trainingSamples   |-> Get(DataStats(doc), "trainingSamples", 0),
     validationSamples |-> Get(DataStats(doc), "validationSamples", 0)]

Tasks(v) ==
    << [type        |-> IF v = "nested" THEN "EOTask" ELSE "AI_EOTask",
        id          |-> "task_0",
        name        |-> "Burn Scar Segmentation",
        description |-> "Semantic segmentation of burn scars in satellite imagery using HLS data.",
        inputType   |-> "image",
        outputType  |-> "mask",
        taskType    |-> "segmentation"] >>

----------------------------------------------------------------------------
(* Data and labels, lines 241-293 (nested), 119-155 (top).                 *)

\* the cap on materialized entries
MaxEntries == 50

FileListing(doc) == Get(doc, "geocr:fileListing", EmptyDict)

\* train_images + val_images
AllImages(doc) ==
    LET images == Get(FileListing(doc), "images", EmptyDict)
    IN  Get(images, "train", <<>>) \o Get(images, "val", <<>>)

\* train_annotations + val_annotations
AllAnnotations(doc) ==
    LET annotations == Get(FileListing(doc), "annotations", EmptyDict)
    IN  Get(annotations, "train", <<>>) \o Get(annotations, "val", <<>>)

MinPairs(doc) == Min(Len(AllImages(doc)), Len(AllAnnotations(doc)))

\* an entry numbered from one
DataEntryFromOne(v, i, img_url, mask_url) ==
    [type    |-> IF v = "nested" THEN "EOTrainingData" ELSE "AI_EOTrainingData",
     id      |-> "data_" \o ToString(i + 1),
     dataUrl |-> <<img_url>>,
     labels  |-> << [type        |-> IF v = "nested" THEN "PixelLabel" ELSE "AI_PixelLabel",
                     imageUrl    |-> <<mask_url>>,
                     imageFormat |-> <<"image/tiff">>,
                     class       |-> ""] >>]

\* data_entry for source index i
DataEntry(v, i, img_url, mask_url) ==
    [type    |-> IF v = "nested" THEN "EOTrainingData" ELSE "AI_EOTrainingData",
     id      |-> "data_" \o ToString(i),
     dataUrl |-> <<img_url>>,
     labels  |-> << [type        |-> IF v = "nested" THEN "PixelLabel" ELSE "AI_PixelLabel",
                     imageUrl    |-> <<mask_url>>,
                     imageFormat |-> <<"image/tiff">>,
                     class       |-> ""] >>]

\* a limit that forgets the cap of MaxEntries
MaxSamplesUncapped(total_samples, min_pairs) ==
    IF total_samples > 0 THEN total_samples ELSE min_pairs

\* max_samples of the nested converter
MaxSamples(total_samples, min_pairs) ==
    IF total_samples > 0 THEN Min(MaxEntries, total_samples)
    ELSE Min(MaxEntries, min_pairs)

\* if not img_url or not mask_url: continue
SkipsPair(img_url, mask_url) == ~Truthy(img_url) \/ ~Truthy(mask_url)

\* for i in range(stop): the nested converter's loop from index i on;
\* acc holds data and the warnings printed
RECURSIVE NestedLoop(_, _, _, _, _)
NestedLoop(i, stop, all_images, all_annotations, acc) ==
    IF i >= stop THEN acc
    ELSE IF SkipsPair(all_images[i + 1], all_annotations[i + 1])
         THEN NestedLoop(i + 1, stop, all_images, all_annotations,
                 [acc EXCEPT !.warnings =
                     Append(@, "Warning: Skipping data entry " \o ToString(i)
                               \o " due to missing URL")])
         ELSE NestedLoop(i + 1, stop, all_images, all_annotations,
                 [acc EXCEPT !.data =
                     Append(@, DataEntry("nested", i, all_images[i + 1],
                                         all_annotations[i + 1]))])

NestedData(doc) ==
    IF FileListing(doc) = EmptyDict
    THEN [data |-> <<>>,
          warnings |-> <<"Warning: No file listing found in GeoCroissant data">>]
    ELSE IF MinPairs(doc) = 0
         THEN [data |-> <<>>,
               warnings |-> <<"Warning: No image-annotation pairs found in file listing">>]
         ELSE NestedLoop(0, Min(MaxSamples(TotalSamples(doc), MinPairs(doc)), MinPairs(doc)),
                         AllImages(doc), AllAnnotations(doc),
                         [data |-> <<>>, warnings |-> <<>>])

\* if i >= min(50, total_samples): break
TopBreaks(i, total_samples) == i >= Min(MaxEntries, total_samples)

\* for i, (img_url, mask_url) in enumerate(zip(...)): the top converter's loop
RECURSIVE TopLoop(_, _, _, _, _)
TopLoop(i, total_samples, all_images, all_annotations, data) ==
    IF i >= Min(Len(all_images), Len(all_annotations)) \/ TopBreaks(i, total_samples)
    THEN data
    ELSE TopLoop(i + 1, total_samples, all_images, all_annotations,
                 Append(data, DataEntry("top", i, all_images[i + 1],
                                        all_annotations[i + 1])))

TopData(doc) ==
    [data |-> TopLoop(0, TotalSamples(doc), AllImages(doc), AllAnnotations(doc), <<>>),
     warnings |-> <<>>]

Data(v, doc) == IF v = "nested" THEN NestedData(doc) ELSE TopData(doc)

----------------------------------------------------------------------------
(* The target object, lines 295-324 (nested), 157-179 (top).               *)

\* a count that reads the statistics instead of the list
AmountFromStatistics(doc, data) == TotalSamples(doc)

\* len(data)
AmountOfTrainingData(doc, data) == Len(data)

TdmlStructure(v, doc, main) ==
    LET classes == Classes(v, doc, main)
        data    == Data(v, doc).data
    IN  [type        |-> IF v = "nested" THEN "EOTrainingDataset" ELSE "AI_EOTrainingDataset",
         id          |-> Identifier(doc),
         name        |-> DatasetName(v, doc),
         description |-> Description(doc),
         license     |-> License(v, doc),
         providers   |-> Providers(v, doc),
         createdTime |-> CreatedTime(doc),
         updatedTime |-> UpdatedTime(doc),
         version     |-> Version(v, doc),
         tasks       |-> Tasks(v),
         classes     |-> classes,
         bands       |-> Bands(v, doc, main),
         data        |-> data,
         amountOfTrainingData |-> AmountOfTrainingData(doc, data),
         numberOfClasses      |-> Len(classes),
         dataStatistics       |-> Statistics(doc)]

\* the string fields and the list fields of required_fields, in its order
RequiredFields ==
    <<"type", "id", "name", "description", "license", "providers", "createdTime",
      "updatedTime", "version", "tasks", "classes", "bands", "data">>

ListFields == {"providers", "tasks", "classes", "bands", "data"}

\* not tdml_structure.get(field)
FieldMissing(tdml, f) ==
    IF f \in ListFields THEN tdml[f] = <<>> ELSE ~Truthy(tdml[f])

\* missing_fields
MissingFields(tdml) ==
    SelectSeq(RequiredFields, LAMBDA f : FieldMissing(tdml, f))

\* str(list) of field names: ['a', 'b']
RECURSIVE Joined(_)
Joined(fs) ==
    IF fs = <<>> THEN ""
    ELSE "'" \o Head(fs) \o "'" \o (IF Len(fs) > 1 THEN ", " ELSE "") \o Joined(Tail(fs))

RequiredWarnings(v, tdml) ==
    IF v = "nested" /\ MissingFields(tdml) # <<>>
    THEN <<"Warning: Missing required fields: [" \o Joined(MissingFields(tdml)) \o "]">>
    ELSE <<>>

\* every warning of an in-memory conversion that reaches the end, in print order
RemapWarnings(v, doc) ==
    LET main == MainRecordSet(v, doc)
    IN  RecordSetWarnings(v, doc) \o ClassWarnings(v, doc, main)
        \o BandWarnings(v, doc, main) \o Data(v, doc).warnings
        \o RequiredWarnings(v, TdmlStructure(v, doc, main))

----------------------------------------------------------------------------
(* Source documents the conversions are run on.                            *)

T_HLS_data == <<"H","L","S","_","d","a","t","a">>
T_other == <<"o","t","h","e","r">>
T_foo == <<"f","o","o">>
T_Image == <<"I","m","a","g","e">>
T_hls_image == <<"h","l","s","_","i","m","a","g","e">>
T_band2 == <<"b","a","n","d","2">>
T_band1 == <<"b","a","n","d","1">>
T_sensor == <<"s","e","n","s","o","r">>

\* the objects {k: v} for v in S, and {} when the key may be absent
Opt(k, S) == {EmptyDict} \cup {k :> v : v \in S}

BlueInfo == [name |-> "Blue", wavelength |-> "490nm", hlsBand |-> "B02"]
RedInfo  == [name |-> "Red", wavelength |-> "665nm", hlsBand |-> "B04"]
BareInfo == [hlsBand |-> "B8A"]

\* geocr:bandConfiguration objects of a record-set field
FieldBandConfigs ==
    { [totalBands |-> 2, band1 |-> BlueInfo, band2 |-> RedInfo],
      [totalBands |-> 3, band3 |-> BareInfo, band1 |-> RedInfo],
      [totalBands |-> 1, band1 |-> BlueInfo, band2 |-> RedInfo],
      [band1 |-> BlueInfo],
      [totalBands |-> 0] }

\* geocr:classValues objects of a record-set field, in document order
FieldClassValues ==
    { << [key |-> "0", val |-> "NotBurned"], [key |-> "1", val |-> "BurnScar"] >>,
      << [key |-> "1", val |-> "Water"] >>,
      << >> }

ImageField(name, cfg) == ("name" :> name) @@ ("geocr:bandConfiguration" :> cfg)
AnnotationField(name, cv) == ("name" :> name) @@ ("geocr:classValues" :> cv)


\* field lists of a record set
FieldLists ==
    {<<>>}
    \cup {<<ImageField(n, cfg)>> : n \in {T_hls_image, T_Image}, cfg \in FieldBandConfigs}
    \cup {<<AnnotationField(n, cv)>> : n \in {T_annotation, T_other}, cv \in FieldClassValues}
    \cup {<<ImageField(T_image, c1), AnnotationField(T_annotation, cv), ImageField(T_hls_image, c2)>> :
             c1 \in FieldBandConfigs, c2 \in FieldBandConfigs, cv \in FieldClassValues}
    \cup {<<("name" :> T_hls_image), EmptyDict,
            ("geocr:bandConfiguration" :> [totalBands |-> 1, band1 |-> BlueInfo])>>}

StandardFields ==
    <<ImageField(T_hls_image, [totalBands |-> 2, band1 |-> BlueInfo, band2 |-> RedInfo]),
      AnnotationField(T_annotation,
          << [key |-> "0", val |-> "NotBurned"], [key |-> "1", val |-> "BurnScar"] >>)>>

\* a record set {name, field}
RecordSet(name, fields) == ("name" :> name) @@ ("field" :> fields)

\* the record set a name stands for: its one band carries the name
NamedRecordSet(name) ==
    RecordSet(name, <<ImageField(T_image,
        [totalBands |-> 1, band1 |-> [name |-> Str(name), hlsBand |-> "B02"]])>>)

\* entries a recordSet sequence is made of
RecordSetEntries ==
    {NamedRecordSet(n) : n \in {T_hls_burn_scars, T_HLS_data, T_other, T_foo}}
    \cup {EmptyDict, ("field" :> StandardFields)}

RECURSIVE SeqsUpTo(_, _)
SeqsUpTo(S, n) ==
    IF n = 0 THEN {<<>>}
    ELSE LET shorter == SeqsUpTo(S, n - 1)
         IN  shorter \cup {Append(q, x) : q \in {r \in shorter : Len(r) = n - 1}, x \in S}

\* geocr:sensorCharacteristics values
SensorChoices ==
    { <<>>,
      <<EmptyDict>>,
      <<[bandConfiguration |-> <<>>]>>,
      <<[bandConfiguration |-> << [key |-> T_sensor, val |-> EmptyDict] >>]>>,
      <<[bandConfiguration |-> << [key |-> T_band2, val |-> RedInfo],
                                  [key |-> T_sensor, val |-> EmptyDict],
                                  [key |-> T_band1, val |-> BareInfo] >>]>>,
      <<[bandConfiguration |-> << [key |-> T_band1, val |-> BlueInfo] >>],
        [bandConfiguration |-> << [key |-> T_band2, val |-> RedInfo] >>]>> }

ClassNames == {"NotBurned", "BurnScar", "NoData", "Water"}

\* geocr:mlTask values
MlTaskChoices ==
    {EmptyDict, [taskType |-> "segmentation"], [classes |-> [str |-> "NotBurned"]]}
    \cup {[classes |-> [list |-> q]] : q \in SeqsUpTo(ClassNames, MaxClasses)}

StringChoices == {"", "x"}

LicenseChoices ==
    {[str |-> ""], [str |-> "MIT"], [list |-> <<>>], [list |-> <<"">>],
     [list |-> <<"MIT", "Apache-2.0">>]}

CreatorChoices ==
    { [list |-> <<>>],
      [list |-> <<[dict |-> [name |-> "NASA"]], [dict |-> EmptyDict],
                  [dict |-> [name |-> ""]], [str |-> "IBM"]>>],
      [list |-> <<[dict |-> [url |-> "https://example.org"]]>>],
      [list |-> <<[str |-> ""]>>],
      [dict |-> [name |-> "NASA"]],
      [dict |-> [name |-> ""]],
      [dict |-> EmptyDict],
      [str |-> "NASA"] }


\* a URL list of n entries; the entry at combined position blank_at is blank
Urls(prefix, n, offset, blank_at, blank) ==
    [k \in 1..n |-> IF offset + k = blank_at THEN blank ELSE prefix \o ToString(k)]

\* geocr:fileListing with ti/vi train/val images and ta/va train/val annotations;
\* b.img and b.ann are the combined positions (0: none) of an empty image URL
\* and of a null annotation URL
Listing(ti, vi, ta, va, b) ==
    [images      |-> [train |-> Urls("train_img_", ti, 0, b.img, ""),
                      val   |-> Urls("val_img_", vi, ti, b.img, "")],
     annotations |-> [train |-> Urls("train_mask_", ta, 0, b.ann, Null),
                      val   |-> Urls("val_mask_", va, ta, b.ann, Null)]]

NoBlank == [img |-> 0, ann |-> 0]

BlankChoices ==
    {NoBlank, [img |-> 1, ann |-> 0], [img |-> 0, ann |-> 2], [img |-> 2, ann |-> 2],
     [img |-> 1, ann |-> 3]}

\* <<ti, vi, ta, va>>: each annotation list within one of its image list
SmallShapes ==
    {s \in (0..MaxSplit) \X (0..MaxSplit) \X (0..MaxSplit) \X (0..MaxSplit) :
        s[3] - s[1] \in (-1)..1 /\ s[4] - s[2] \in (-1)..1}

SmallListings ==
    {Listing(s[1], s[2], s[3], s[4], b) : s \in SmallShapes, b \in BlankChoices}
    \cup {EmptyDict, [images |-> [train |-> <<"a.tif">>]], [annotations |-> EmptyDict]}

\* listings around the cap of MaxEntries
LongListings ==
    {Listing(ti, vi, ta, va, b) :
        ti \in {MaxEntries - 1, MaxEntries + 1}, vi \in 0..2,
        ta \in {MaxEntries - 1, MaxEntries + 1}, va \in 0..2,
        b \in {NoBlank, [img |-> 1, ann |-> 0], [img |-> 0, ann |-> MaxEntries]}}

SmallStats == Opt("totalSamples", (-1)..(MaxSplit + 1))

LongStats ==
    Opt("totalSamples", {0, 2, MaxEntries - 1, MaxEntries, MaxEntries + 1})

StandardMeta ==
    ("@id" :> "hls-burn-scars") @@
    [name |-> "HLS Burn Scars", description |-> "Burn scar masks over HLS scenes",
     license |-> [str |-> "CC-BY-4.0"], creator |-> [list |-> <<[dict |-> [name |-> "NASA"]]>>],
     dateCreated |-> "2024-01-01", dateModified |-> "2024-06-01", version |-> "2.0"]

StandardRecordSets == ("recordSet" :> <<RecordSet(T_hls_burn_scars, StandardFields)>>)

StandardSensor ==
    ("geocr:sensorCharacteristics" :>
        <<[bandConfiguration |-> << [key |-> T_band1, val |-> BlueInfo],
                                    [key |-> T_band2, val |-> RedInfo] >>]>>)

StandardMlTask == ("geocr:mlTask" :> [classes |-> [list |-> <<"NotBurned", "BurnScar">>]])

StandardListing ==
    ("geocr:fileListing" :> Listing(2, 1, 2, 1, NoBlank)) @@
    ("geocr:dataStatistics" :>
        [totalSamples |-> 3, trainingSamples |-> 2, validationSamples |-> 1])

\* documents that vary the file listing and the statistics
DataDocs ==
    {StandardMeta @@ StandardRecordSets @@ StandardSensor @@ StandardMlTask @@ l @@ st :
        l \in Opt("geocr:fileListing", SmallListings),
        st \in Opt("geocr:dataStatistics", SmallStats)}
    \cup
    {StandardMeta @@ StandardRecordSets @@ StandardSensor @@ StandardMlTask @@ l @@ st :
        l \in {"geocr:fileListing" :> x : x \in LongListings},
        st \in Opt("geocr:dataStatistics", LongStats)}

MetaChoices ==
    {StandardMeta}
    \cup {a @@ b : a \in Opt("@id", StringChoices), b \in Opt("id", StringChoices)}
    \cup {a @@ b @@ c : a \in Opt("name", StringChoices),
                        b \in Opt("description", StringChoices),
                        c \in Opt("version", StringChoices)}
    \cup Opt("license", LicenseChoices)
    \cup Opt("creator", CreatorChoices)
    \cup {a @@ b @@ c @@ d : a \in Opt("dateCreated", StringChoices),
                             b \in Opt("created_time", StringChoices),
                             c \in Opt("dateModified", StringChoices),
                             d \in Opt("updated_time", StringChoices)}

\* documents that vary the descriptive fields
MetaDocs ==
    {m @@ StandardRecordSets @@ StandardSensor @@ StandardMlTask @@ StandardListing :
        m \in MetaChoices}

\* documents that vary recordSet
RecordSetDocs ==
    {StandardMeta @@ rs @@ StandardListing :
        rs \in Opt("recordSet", SeqsUpTo(RecordSetEntries, MaxRecordSets))}

\* documents that vary where the bands are described
BandDocs ==
    {StandardMeta @@ ("recordSet" :> <<RecordSet(T_hls_burn_scars, f)>>) @@ sc
        @@ StandardMlTask @@ StandardListing :
        f \in FieldLists, sc \in Opt("geocr:sensorCharacteristics", SensorChoices)}

\* documents that vary where the classes are described
ClassDocs ==
    {StandardMeta @@ ("recordSet" :> <<RecordSet(T_hls_burn_scars, f)>>) @@ ml
        @@ StandardSensor @@ StandardListing :
        f \in {<<>>, StandardFields,
               <<AnnotationField(T_annotation, << [key |-> "1", val |-> "Water"] >>),
                 AnnotationField(T_annotation, << [key |-> "1", val |-> "Cloud"] >>)>>},
        ml \in Opt("geocr:mlTask", MlTaskChoices)}

SourceDocs == DataDocs \cup MetaDocs \cup RecordSetDocs \cup BandDocs \cup ClassDocs

Variants == {"nested", "top"}

----------------------------------------------------------------------------
(* The conversion as a state machine.                                      *)

NoData == [unloaded |-> TRUE]
NoTarget == [unassembled |-> TRUE]
NoError == [exc |-> "", msg |-> ""]

Init ==
    /\ variant \in Variants
    /\ source_file \in {[kind |-> "missing"], [kind |-> "malformed"]}
                       \cup {[kind |-> "json", doc |-> d] : d \in SourceDocs}
    /\ croissant_data = NoData
    /\ tdml_structure = NoTarget
    /\ warnings = <<>>
    /\ target_file \in {"absent", "previous"}
    /\ error = NoError
    /\ pc = "load"

\* the exception of a failed load
LoadError(v, kind) ==
    IF kind = "missing"
    THEN [exc |-> "FileNotFoundError",
          msg |-> IF v = "nested" THEN "GeoCroissant file not found: <path>"
                  ELSE "[Errno 2] No such file or directory: <path>"]
    ELSE IF v = "nested"
         THEN [exc |-> "ValueError", msg |-> "Invalid JSON in GeoCroissant file: <detail>"]
         ELSE [exc |-> "JSONDecodeError", msg |-> "<detail>"]

\* with open(geocroissant_path, 'r') as f: croissant_data = json.load(f)
Load ==
    /\ pc = "load"
    /\ IF source_file.kind = "json"
       THEN /\ croissant_data' = source_file.doc
            /\ pc' = "remap"
            /\ error' = error
       ELSE /\ error' = LoadError(variant, source_file.kind)
            /\ pc' = "raised"
            /\ croissant_data' = croissant_data
    /\ UNCHANGED <<variant, source_file, tdml_structure, warnings, target_file>>

\* the in-memory transform, from the metadata to the required-field check
Remap ==
    /\ pc = "remap"
    /\ LET main == MainRecordSet(variant, croissant_data)
       IN  IF FalsyRecordSet(main)
           THEN /\ error' = RecordSetError(variant)
                /\ warnings' = warnings \o RecordSetWarnings(variant, croissant_data)
                /\ pc' = "raised"
                /\ tdml_structure' = tdml_structure
           ELSE /\ tdml_structure' = TdmlStructure(variant, croissant_data, main)
                /\ warnings' = warnings \o RemapWarnings(variant, croissant_data)
                /\ pc' = "write"
                /\ error' = error
    /\ UNCHANGED <<variant, source_file, croissant_data, target_file>>

\* the exception of a failed write
WriteError(v) ==
    IF v = "nested"
    THEN [exc |-> "IOError", msg |-> "Failed to write TDML file: <detail>"]
    ELSE [exc |-> "OSError", msg |-> "<detail>"]

\* with open(tdml_output_path, 'w') as f: the open truncates or fails
OpenTarget ==
    /\ pc = "write"
    /\ \/ /\ target_file' = "empty"
          /\ pc' = "dump"
          /\ error' = error
       \/ /\ target_file' = target_file
          /\ pc' = "raised"
          /\ error' = WriteError(variant)
    /\ UNCHANGED <<variant, source_file, croissant_data, tdml_structure, warnings>>

\* json.dump(tdml_structure, f, indent=2): completes, or fails part-way
DumpTarget ==
    /\ pc = "dump"
    /\ \/ /\ target_file' = "complete"
          /\ pc' = "done"
          /\ error' = error
       \/ /\ target_file' \in {"empty", "partial"}
          /\ pc' = "raised"
          /\ error' = WriteError(variant)
    /\ UNCHANGED <<variant, source_file, croissant_data, tdml_structure, warnings>>

Next == Load \/ Remap \/ OpenTarget \/ DumpTarget

Spec == Init /\ [][Next]_vars

----------------------------------------------------------------------------
(* Properties.                                                             *)

\* the conversion assembled a target document
Produced == tdml_structure # NoTarget

\* the conversion wrote its target document
Written == pc = "done"

\* every URL of both combined sequences is non-empty
AllUrlsPresent(doc) ==
    /\ \A k \in 1..Len(AllImages(doc)) : Truthy(AllImages(doc)[k])
    /\ \A k \in 1..Len(AllAnnotations(doc)) : Truthy(AllAnnotations(doc)[k])

\* the data entry carries the pair at source index i
CarriesPair(entry, doc, i) ==
    /\ entry.dataUrl = <<AllImages(doc)[i + 1]>>
    /\ Len(entry.labels) = 1
    /\ entry.labels[1].imageUrl = <<AllAnnotations(doc)[i + 1]>>

\* C1: whenever a target document is produced, amountOfTrainingData is the
\* number of entries of data and numberOfClasses the number of entries of
\* classes.
C1_CountsMatch ==
    Produced =>
        /\ tdml_structure.amountOfTrainingData = Len(tdml_structure.data)
        /\ tdml_structure.numberOfClasses = Len(tdml_structure.classes)

\* C1 witness: a written document whose data is non-empty and shorter than
\* the pair list, with a totalSamples that differs from the number of entries
C1_Witness ==
    /\ Written
    /\ Len(tdml_structure.data) > 0
    /\ Len(tdml_structure.data) < MinPairs(croissant_data)
    /\ TotalSamples(croissant_data) # Len(tdml_structure.data)

\* C2: the number of data entries is at most min(50, totalSamples) when
\* totalSamples > 0 and at most min(50, min(len(images), len(annotations)))
\* otherwise.
C2_CapLaw ==
    Produced =>
        LET n == Len(tdml_structure.data)
            t == TotalSamples(croissant_data)
        IN  IF t > 0 THEN n <= Min(MaxEntries, t)
            ELSE n <= Min(MaxEntries, MinPairs(croissant_data))

\* C2 witness: more than 50 pairs, a totalSamples above 50, and exactly 50
\* entries written
C2_Witness ==
    /\ Written
    /\ MinPairs(croissant_data) > MaxEntries
    /\ TotalSamples(croissant_data) > MaxEntries
    /\ Len(tdml_structure.data) = MaxEntries

\* C3: with every URL non-empty, no totalSamples and combined sequences of
\* equal length n <= 50, data has n entries, entry k having id data_k and
\* carrying the k-th image URL and the k-th annotation URL.
C3_PairAlignment ==
    LET doc == croissant_data
        n   == Len(AllImages(doc))
    IN  (/\ Produced
         /\ AllUrlsPresent(doc)
         /\ "totalSamples" \notin DOMAIN DataStats(doc)
         /\ Len(AllAnnotations(doc)) = n
         /\ n <= MaxEntries)
        => /\ Len(tdml_structure.data) = n
           /\ \A k \in 0..(n - 1) :
                /\ tdml_structure.data[k + 1].id = "data_" \o ToString(k)
                /\ CarriesPair(tdml_structure.data[k + 1], doc, k)

\* C3 for the nested converter alone
C3_PairAlignmentNested == variant = "nested" => C3_PairAlignment

\* the cap the specification gives: 50, and totalSamples when positive
StatedCap(doc) ==
    IF TotalSamples(doc) > 0 THEN Min(MaxEntries, TotalSamples(doc)) ELSE MaxEntries

\* the pair at source index i has both URLs
ValidPair(doc, i) ==
    Truthy(AllImages(doc)[i + 1]) /\ Truthy(AllAnnotations(doc)[i + 1])

\* C4: a pair with an empty or missing URL is never emitted, the valid pairs
\* within the cap are all emitted, and so every entry has a label, a
\* non-empty data URL and a non-empty label imageUrl.
C4_SkipOnMissingUrl ==
    LET doc == croissant_data
    IN  Produced =>
          /\ \A k \in 1..Len(tdml_structure.data) :
                LET e == tdml_structure.data[k]
                IN  /\ Len(e.labels) >= 1
                    /\ Truthy(e.dataUrl[1])
                    /\ Truthy(e.labels[1].imageUrl[1])
          /\ \A i \in 0..(Min(StatedCap(doc), MinPairs(doc)) - 1) :
                ValidPair(doc, i) =>
                    \E k \in 1..Len(tdml_structure.data) :
                        CarriesPair(tdml_structure.data[k], doc, i)

\* C4 for the nested converter alone
C4_SkipOnMissingUrlNested == variant = "nested" => C4_SkipOnMissingUrl

\* C5 as stated: the k-th entry of data, counting from 0, has id data_k.
C5_IdsByEmittedIndex ==
    Produced =>
        \A k \in 1..Len(tdml_structure.data) :
            tdml_structure.data[k].id = "data_" \o ToString(k - 1)

\* the source index an id names, among the indices below n; n when none
SourceIndexOf(id, n) ==
    IF \E i \in 0..(n - 1) : id = "data_" \o ToString(i)
    THEN CHOOSE i \in 0..(n - 1) : id = "data_" \o ToString(i)
    ELSE n

\* C5 amended: every entry has id data_i for the source index i of the pair
\* it carries, and the indices increase along data; the ids are
\* data_0..data_(len(data)-1) when no pair before the last entry was skipped.
C5_IdsBySourceIndex ==
    LET doc == croissant_data
        n   == MinPairs(doc)
        idx(k) == SourceIndexOf(tdml_structure.data[k].id, n)
    IN  Produced =>
          /\ \A k \in 1..Len(tdml_structure.data) :
                /\ idx(k) < n
                /\ CarriesPair(tdml_structure.data[k], doc, idx(k))
                /\ k > 1 => idx(k - 1) < idx(k)
          /\ (\A i \in 0..(n - 1) : ValidPair(doc, i)) => C5_IdsByEmittedIndex

\* C5 witness: a written document in which a pair was skipped and a later
\* pair was emitted, so that an id is missing from the sequence
C5_Witness ==
    /\ Written
    /\ \E k \in 1..Len(tdml_structure.data) :
          tdml_structure.data[k].id # "data_" \o ToString(k - 1)


\* json.load returned and the in-memory transform has run
Remapped == croissant_data # NoData /\ pc \notin {"load", "remap"}

RecordSets(doc) == Get(doc, "recordSet", <<>>)

\* the entry's name equals hls_burn_scars or contains hls in any letter case
NamedLikeMain(rs) ==
    /\ "name" \in DOMAIN rs
    /\ (rs["name"] = T_hls_burn_scars \/ Contains(Lower(rs["name"]), T_hls))

\* the warning of the first-entry fallback
FallbackWarning(rs) ==
    "Warning: Using first record set '"
    \o (IF "name" \in DOMAIN rs THEN Str(rs["name"]) ELSE "unknown")
    \o "' as main record set"

\* C6: when recordSet is non-empty and no entry is named like the main record
\* set, the first entry is selected, a warning is printed and the conversion
\* assembles its target instead of raising.
C6_FirstEntryFallback ==
    LET doc == croissant_data
    IN  (/\ Remapped
         /\ RecordSets(doc) # <<>>
         /\ \A i \in 1..Len(RecordSets(doc)) : ~NamedLikeMain(RecordSets(doc)[i]))
        => /\ Produced
           /\ error # RecordSetError(variant)
           /\ MainRecordSet(variant, doc) = RecordSets(doc)[1]
           /\ \E k \in 1..Len(warnings) : warnings[k] = FallbackWarning(RecordSets(doc)[1])

\* C6 for the nested converter and first entries that are not the empty object
C6_FirstEntryFallbackNested ==
    (variant = "nested" /\ Remapped /\ RecordSets(croissant_data) # <<>>
        /\ RecordSets(croissant_data)[1] # EmptyDict)
    => C6_FirstEntryFallback

\* C7: an empty or absent recordSet makes the conversion raise before any
\* target is assembled, and the exception differs, in class or in message,
\* from the ones a missing file and a malformed file raise.
C7_FatalOnEmptyRecordSet ==
    (Remapped /\ RecordSets(croissant_data) = <<>>)
    => /\ pc = "raised"
       /\ ~Produced
       /\ error # NoError
       /\ error # LoadError(variant, "missing")
       /\ error # LoadError(variant, "malformed")

\* C7 witness: a loaded document without record sets, and the exception raised
C7_Witness ==
    /\ pc = "raised"
    /\ croissant_data # NoData
    /\ RecordSets(croissant_data) = <<>>
    /\ error.exc = "ValueError"

\* some field of some record set has the key
SomeFieldHas(doc, key) ==
    \E i \in 1..Len(RecordSets(doc)) :
        \E j \in 1..Len(Get(RecordSets(doc)[i], "field", <<>>)) :
            key \in DOMAIN RecordSets(doc)[i]["field"][j]

NoBandConfiguration(doc) ==
    /\ "geocr:sensorCharacteristics" \notin DOMAIN doc
    /\ ~SomeFieldHas(doc, "geocr:bandConfiguration")

NoClassConfiguration(doc) ==
    /\ "classes" \notin DOMAIN Get(doc, "geocr:mlTask", EmptyDict)
    /\ ~SomeFieldHas(doc, "geocr:classValues")

\* C8: a source with no band configuration anywhere gets exactly the six
\* default HLS bands, and a source with no class configuration exactly the
\* three default classes.
C8_DefaultSubstitution ==
    Produced =>
        /\ NoBandConfiguration(croissant_data) => tdml_structure.bands = DefaultBands
        /\ NoClassConfiguration(croissant_data) => tdml_structure.classes = DefaultClasses

\* C8 for the nested converter alone
C8_DefaultSubstitutionNested == variant = "nested" => C8_DefaultSubstitution

\* geocr:mlTask.classes is a sequence of class names and the converter reads it
ClassesFromMlTask(v, doc) ==
    /\ v = "nested"
    /\ "classes" \in DOMAIN Get(doc, "geocr:mlTask", EmptyDict)
    /\ "list" \in DOMAIN doc["geocr:mlTask"]["classes"]

\* C9: for every sequence of class names given in geocr:mlTask.classes, no
\* two entries of the target's classes share a key.
C9_ClassKeysUnique ==
    (Produced /\ ClassesFromMlTask(variant, croissant_data)) =>
        \A i, j \in 1..Len(tdml_structure.classes) :
            i # j => tdml_structure.classes[i].key # tdml_structure.classes[j].key

\* C9 restricted to sequences of distinct recognised names
C9_RecognisedKeysUnique ==
    LET names == Get(croissant_data, "geocr:mlTask", EmptyDict)
    IN  (/\ Produced
         /\ ClassesFromMlTask(variant, croissant_data)
         /\ \A i \in 1..Len(names["classes"].list) :
               /\ names["classes"].list[i] \in {"NotBurned", "BurnScar", "NoData"}
               /\ \A j \in 1..Len(names["classes"].list) :
                     i # j => names["classes"].list[i] # names["classes"].list[j])
        => \A i, j \in 1..Len(tdml_structure.classes) :
              i # j => tdml_structure.classes[i].key # tdml_structure.classes[j].key

\* C10 as stated: every required field of a produced target is non-empty.
C10_RequiredFieldsNonEmpty ==
    Produced =>
        \A k \in 1..Len(RequiredFields) : ~FieldMissing(tdml_structure, RequiredFields[k])

\* C10 amended: type, id, description, createdTime, updatedTime and tasks are
\* non-empty in every produced target, and so are license, providers, classes
\* and bands in a target of the nested converter; name, version and data may
\* be empty.
C10_ResolvedFieldsNonEmpty ==
    Produced =>
        /\ \A f \in {"type", "id", "description", "createdTime", "updatedTime", "tasks"} :
              ~FieldMissing(tdml_structure, f)
        /\ variant = "nested" =>
              \A f \in {"license", "providers", "classes", "bands"} :
                  ~FieldMissing(tdml_structure, f)

\* C10 witness: a target written by the nested converter from a source that
\* carries an empty description and no license, with name and version empty
C10_Witness ==
    /\ Written
    /\ variant = "nested"
    /\ Get(croissant_data, "description", "x") = ""
    /\ "license" \notin DOMAIN croissant_data
    /\ tdml_structure.name = ""
    /\ tdml_structure.version = ""

\* the target file holds what it held before the run
TargetUntouched == target_file \in {"absent", "previous"}

\* the run ended in a fatal error
Fatal == pc = "raised"

\* C11: the target file is opened and written only after loading has completed
\* and the full target object has been assembled, and a run that ends in a
\* fatal error (missing source, malformed source, no main record set, write
\* failure) leaves no partial content in the target file.
C11_NoPartialOutput ==
    /\ ~TargetUntouched => (croissant_data # NoData /\ Produced)
    /\ Fatal => target_file # "partial"

\* C11 for the fatal errors raised before the write: the target file is
\* touched only once the target object is assembled, and a failed load or a
\* failed record-set selection leaves it as it was before the run
C11_NoOutputBeforeAssembly ==
    /\ ~TargetUntouched => (croissant_data # NoData /\ Produced)
    /\ (Fatal /\ ~Produced) => TargetUntouched

\* a fatal error raised before the write, with a target file from an earlier run
C11_FatalBeforeWrite ==
    /\ Fatal
    /\ ~Produced
    /\ target_file = "previous"

\* the bands the stated precedence gives: the top-level shape when it yields a
\* band, else the main record set's field shape when it yields one, else the
\* six defaults
BandsByPrecedence(doc, main) ==
    IF SensorBands(doc) # <<>> THEN SensorBands(doc)
    ELSE IF RecordSetBands(Get(main, "field", <<>>)) # <<>>
         THEN RecordSetBands(Get(main, "field", <<>>))
         ELSE DefaultBands

\* C12: the bands of a produced target come from the top-level
\* geocr:sensorCharacteristics[0].bandConfiguration when it yields a band,
\* otherwise from the geocr:bandConfiguration of the main record set's image
\* fields (band1..bandN up to totalBands, one descriptor per present key), and
\* the six defaults are used only when neither shape yields a band.
C12_BandPrecedence ==
    Produced =>
        tdml_structure.bands =
            BandsByPrecedence(croissant_data, MainRecordSet(variant, croissant_data))

\* C12 for the shape each converter reads: the nested one takes the top-level
\* shape and falls back to the defaults, the top-level one takes the field shape
C12_BandsOfOneShape ==
    Produced =>
        LET doc == croissant_data
            fields == Get(MainRecordSet(variant, doc), "field", <<>>)
        IN  IF variant = "nested"
            THEN tdml_structure.bands =
                    (IF SensorBands(doc) # <<>> THEN SensorBands(doc) ELSE DefaultBands)
            ELSE tdml_structure.bands = RecordSetBands(fields)

\* a target written by the nested converter with the default bands, from a
\* source whose only band description is the main record set's field shape
C12_RecordSetShapeOnly ==
    /\ Written
    /\ variant = "nested"
    /\ "geocr:sensorCharacteristics" \notin DOMAIN croissant_data
    /\ RecordSetBands(Get(MainRecordSet(variant, croissant_data), "field", <<>>)) # <<>>
    /\ tdml_structure.bands = DefaultBands

\* the first entry of record_sets that is named like the main record set
FirstNamedLikeMain(record_sets) ==
    record_sets[CHOOSE i \in 1..Len(record_sets) :
                    /\ NamedLikeMain(record_sets[i])
                    /\ \A j \in 1..(i - 1) : ~NamedLikeMain(record_sets[j])]

\* C13: when some entry of recordSet is named hls_burn_scars or has hls in its
\* name in any letter case, the conversion goes on with the first such entry as
\* its main record set; no entry before it and no later entry is selected.
C13_FirstMatchSelected ==
    LET doc == croissant_data
    IN  (/\ Remapped
         /\ \E i \in 1..Len(RecordSets(doc)) : NamedLikeMain(RecordSets(doc)[i]))
        => /\ Produced
           /\ MainRecordSet(variant, doc) = FirstNamedLikeMain(RecordSets(doc))

\* C13 for the nested converter alone
C13_FirstMatchSelectedNested == variant = "nested" => C13_FirstMatchSelected

\* a target written by the nested converter whose main record set is a second
\* entry named HLS_data, after a first entry that does not match
C13_SecondEntrySelected ==
    /\ Written
    /\ variant = "nested"
    /\ Len(RecordSets(croissant_data)) = 2
    /\ ~NamedLikeMain(RecordSets(croissant_data)[1])
    /\ Get(RecordSets(croissant_data)[2], "name", <<>>) = T_HLS_data
    /\ MainRecordSet(variant, croissant_data) = RecordSets(croissant_data)[2]

====
